---- MODULE Spec2Model ----
(***************************************************************************)
(* Tic-Tac-Toe with a Tkinter GUI (src/X_O.py): the board, the rules, the*)
(* minimax move selector, and the event handlers of TicTacToeGUI together  *)
(* with Tk's queue of deferred computer_move callbacks.                   *)
(***************************************************************************)
EXTENDS Integers, Sequences, FiniteSets, TLC

\* ---------------------------------------------------------------- bounds
\* Largest number of computer_move callbacks queued with master.after at
\* one time; a handler that would schedule one more is not taken.
MaxPending == 2

\* ------------------------------------------------------------- constants
Cells == 0..8
EMPTY == " "
Markers == {"X", "O"}
CellValues == {"X", "O", EMPTY}
Modes == {"HvC", "HvH"}
Difficulties == {"easy", "medium", "hard"}

\* Python's None as a move index, and as the result of a winner scan.
None == -1
NoWinner == "None"

WIN_COMBINATIONS ==
    << <<0,1,2>>, <<3,4,5>>, <<6,7,8>>,
       <<0,3,6>>, <<1,4,7>>, <<2,5,8>>,
       <<0,4,8>>, <<2,4,6>> >>

AllBoards == [Cells -> CellValues]
EmptyBoard == [i \in Cells |-> EMPTY]

\* ----------------------------------------------------------------- rules
\* In the operators below brd is a nine-cell list (the board argument or
\* self.board of the code).
\* True when line number k of WIN_COMBINATIONS is three equal non-empty cells.
LineComplete(brd, k) ==
    LET a == WIN_COMBINATIONS[k][1]
        b == WIN_COMBINATIONS[k][2]
        c == WIN_COMBINATIONS[k][3]
    IN brd[a] = brd[b] /\ brd[b] = brd[c] /\ brd[a] # EMPTY

\* The for loop over WIN_COMBINATIONS: the marker of the first complete
\* line in scan order, from line k on.
RECURSIVE ScanLines(_, _)
ScanLines(brd, k) ==
    IF k > Len(WIN_COMBINATIONS) THEN NoWinner
    ELSE IF LineComplete(brd, k) THEN brd[WIN_COMBINATIONS[k][1]]
    ELSE ScanLines(brd, k + 1)

check_winner(brd) == ScanLines(brd, 1)

evaluate_board(brd) == ScanLines(brd, 1)

is_full(brd) == \A i \in Cells : brd[i] # EMPTY

\* Variant of EmptyFrom that stops before the last cell (range(8)).
RECURSIVE EmptyFromSkipLast(_, _)
EmptyFromSkipLast(brd, i) ==
    IF i > 7 THEN <<>>
    ELSE IF brd[i] = EMPTY THEN <<i>> \o EmptyFromSkipLast(brd, i + 1)
    ELSE EmptyFromSkipLast(brd, i + 1)

\* [i for i, c in enumerate(board) if c == ' '], from index i on.
RECURSIVE EmptyFrom(_, _)
EmptyFrom(brd, i) ==
    IF i > 8 THEN <<>>
    ELSE IF brd[i] = EMPTY THEN <<i>> \o EmptyFrom(brd, i + 1)
    ELSE EmptyFrom(brd, i + 1)

available_moves(brd) == EmptyFrom(brd, 0)

Range(s) == {s[k] : k \in 1..Len(s)}

Other(m) == IF m = "X" THEN "O" ELSE "X"

\* -------------------------------------------------- numbering of positions
\* The 3^9 contents of a nine-cell list are numbered 1..NumBoards (base 3,
\* cell i is digit i) so that the results of minimax can be tabulated by
\* position instead of being recomputed for every visit of the search.
NumBoards == 3^9
Pow3 == <<1, 3, 9, 27, 81, 243, 729, 2187, 6561>>
Digit(m) == IF m = EMPTY THEN 0 ELSE IF m = "X" THEN 1 ELSE 2
Mark(d) == IF d = 0 THEN EMPTY ELSE IF d = 1 THEN "X" ELSE "O"
DigitAt(code, i) == ((code - 1) \div Pow3[i + 1]) % 3
Encode(brd) ==
    1 + Digit(brd[0]) + 3 * Digit(brd[1]) + 9 * Digit(brd[2])
      + 27 * Digit(brd[3]) + 81 * Digit(brd[4]) + 243 * Digit(brd[5])
      + 729 * Digit(brd[6]) + 2187 * Digit(brd[7]) + 6561 * Digit(brd[8])
Decode(code) == [i \in Cells |-> Mark(DigitAt(code, i))]

\* board[i] = m on the list numbered code: the number of the resulting list.
SetCell(code, i, m) == code + (Digit(m) - DigitAt(code, i)) * Pow3[i + 1]

BoardTab == SubSeq([c \in 1..NumBoards |-> Decode(c)], 1, NumBoards)
\* evaluate_board(board) and the list of empty indices, per position.
WinnerTab == SubSeq([c \in 1..NumBoards |-> evaluate_board(BoardTab[c])], 1, NumBoards)
MovesTab == SubSeq([c \in 1..NumBoards |-> EmptyFrom(BoardTab[c], 0)], 1, NumBoards)

\* ------------------------------------------------------------------ minimax
\* A result of minimax is <<score, best_move, list>>: the returned pair and
\* the number of the list the caller passed, as the call leaves it (the
\* search writes into that list in place).

\* Variant of SearchLoop that leaves the tentative marker on the list
\* (no board[move] = ' ' after the recursive call).
RECURSIVE SearchLoopNoUndo(_, _, _, _, _, _, _, _)
SearchLoopNoUndo(cur, maximizing, ai_player, human_player, moves, k, best, deeper) ==
    IF k > Len(moves) THEN <<best[1], best[2], cur>>
    ELSE LET move == moves[k]
             placed == SetCell(cur, move, IF maximizing THEN ai_player ELSE human_player)
             r == deeper[placed]
             kept == r[3]
         IN IF (maximizing /\ r[1] > best[1]) \/ (~maximizing /\ r[1] < best[1])
            THEN SearchLoopNoUndo(kept, maximizing, ai_player, human_player, moves, k + 1,
                                  <<r[1], move>>, deeper)
            ELSE SearchLoopNoUndo(kept, maximizing, ai_player, human_player, moves, k + 1,
                                  best, deeper)

\* Variant of SearchLoop with the two comparisons exchanged (< when
\* maximizing, > when minimizing).
RECURSIVE SearchLoopFlipped(_, _, _, _, _, _, _, _)
SearchLoopFlipped(cur, maximizing, ai_player, human_player, moves, k, best, deeper) ==
    IF k > Len(moves) THEN <<best[1], best[2], cur>>
    ELSE LET move == moves[k]
             placed == SetCell(cur, move, IF maximizing THEN ai_player ELSE human_player)
             r == deeper[placed]
             undone == SetCell(r[3], move, EMPTY)
         IN IF (maximizing /\ r[1] < best[1]) \/ (~maximizing /\ r[1] > best[1])
            THEN SearchLoopFlipped(undone, maximizing, ai_player, human_player, moves, k + 1,
                                   <<r[1], move>>, deeper)
            ELSE SearchLoopFlipped(undone, maximizing, ai_player, human_player, moves, k + 1,
                                   best, deeper)

\* Variant of SearchLoop whose comparisons are >= and <=, so that of equal
\* candidates the last one tried is kept.
RECURSIVE SearchLoopKeepLast(_, _, _, _, _, _, _, _)
SearchLoopKeepLast(cur, maximizing, ai_player, human_player, moves, k, best, deeper) ==
    IF k > Len(moves) THEN <<best[1], best[2], cur>>
    ELSE LET move == moves[k]
             placed == SetCell(cur, move, IF maximizing THEN ai_player ELSE human_player)
             r == deeper[placed]
             undone == SetCell(r[3], move, EMPTY)
         IN IF (maximizing /\ r[1] >= best[1]) \/ (~maximizing /\ r[1] <= best[1])
            THEN SearchLoopKeepLast(undone, maximizing, ai_player, human_player, moves, k + 1,
                                    <<r[1], move>>, deeper)
            ELSE SearchLoopKeepLast(undone, maximizing, ai_player, human_player, moves, k + 1,
                                    best, deeper)

\* The for loop of either branch, from the k-th candidate on.  cur is the
\* list as it is now, best is <<best_score, best_move>>, and deeper[p] is
\* the result of minimax on list p at depth + 1 with the other side to move.
RECURSIVE SearchLoop(_, _, _, _, _, _, _, _)
SearchLoop(cur, maximizing, ai_player, human_player, moves, k, best, deeper) ==
    IF k > Len(moves) THEN <<best[1], best[2], cur>>
    ELSE LET move == moves[k]
             placed == SetCell(cur, move, IF maximizing THEN ai_player ELSE human_player)
             r == deeper[placed]
             undone == SetCell(r[3], move, EMPTY)
         IN IF (maximizing /\ r[1] > best[1]) \/ (~maximizing /\ r[1] < best[1])
            THEN SearchLoop(undone, maximizing, ai_player, human_player, moves, k + 1,
                            <<r[1], move>>, deeper)
            ELSE SearchLoop(undone, maximizing, ai_player, human_player, moves, k + 1,
                            best, deeper)

\* Variant of minimax_call that scores a computer win 10 + depth.
minimax_call_late_win(code, depth, maximizing, ai_player, human_player, deeper) ==
    LET winner == WinnerTab[code]
    IN IF winner = ai_player THEN <<10 + depth, None, code>>
       ELSE IF winner = human_player THEN <<depth - 10, None, code>>
       ELSE IF \A i \in Cells : BoardTab[code][i] # EMPTY THEN <<0, None, code>>
       ELSE SearchLoop(code, maximizing, ai_player, human_player, MovesTab[code], 1,
                       <<IF maximizing THEN -999 ELSE 999, None>>, deeper)

\* Variant of minimax_call whose running best starts at 0.
minimax_call_best0(code, depth, maximizing, ai_player, human_player, deeper) ==
    LET winner == WinnerTab[code]
    IN IF winner = ai_player THEN <<10 - depth, None, code>>
       ELSE IF winner = human_player THEN <<depth - 10, None, code>>
       ELSE IF \A i \in Cells : BoardTab[code][i] # EMPTY THEN <<0, None, code>>
       ELSE SearchLoop(code, maximizing, ai_player, human_player, MovesTab[code], 1,
                       <<IF maximizing THEN 0 ELSE 0, None>>, deeper)

\* Variant of minimax_call that scores a human win -10 at every depth.
minimax_call_flat_loss(code, depth, maximizing, ai_player, human_player, deeper) ==
    LET winner == WinnerTab[code]
    IN IF winner = ai_player THEN <<10 - depth, None, code>>
       ELSE IF winner = human_player THEN <<-10, None, code>>
       ELSE IF \A i \in Cells : BoardTab[code][i] # EMPTY THEN <<0, None, code>>
       ELSE SearchLoop(code, maximizing, ai_player, human_player, MovesTab[code], 1,
                       <<IF maximizing THEN -999 ELSE 999, None>>, deeper)

\* One call of minimax on the list numbered code.
minimax_call(code, depth, maximizing, ai_player, human_player, deeper) ==
    LET winner == WinnerTab[code]
    IN IF winner = ai_player THEN <<10 - depth, None, code>>
       ELSE IF winner = human_player THEN <<depth - 10, None, code>>
       ELSE IF \A i \in Cells : BoardTab[code][i] # EMPTY THEN <<0, None, code>>
       ELSE SearchLoop(code, maximizing, ai_player, human_player, MovesTab[code], 1,
                       <<IF maximizing THEN -999 ELSE 999, None>>, deeper)

\* The results of every call the search can make at depth d when it is
\* started at depth 0 with maximizing = True: the side to move alternates
\* with the depth, and a list reached at depth d has at most 9 - d empty
\* cells.  Entries of other lists are never read.  deeper holds the results
\* of the calls at depth d + 1.
MinimaxLevel(d, ai_player, deeper) ==
    SubSeq([c \in 1..NumBoards |->
               IF Len(MovesTab[c]) <= 9 - d
               THEN minimax_call(c, d, d % 2 = 0, ai_player, Other(ai_player), deeper)
               ELSE <<0, None, c>>],
           1, NumBoards)

RECURSIVE MinimaxAtDepth(_, _)
MinimaxAtDepth(d, ai_player) ==
    IF d > 9 THEN <<>>
    ELSE MinimaxLevel(d, ai_player, MinimaxAtDepth(d + 1, ai_player))

\* The recursive calls at depth 2 and depth 1, and the top-level call.
MinimaxTab2 == [ai_player \in Markers |-> MinimaxAtDepth(2, ai_player)] @@ <<>>
MinimaxTab1 == [ai_player \in Markers |-> MinimaxLevel(1, ai_player, MinimaxTab2[ai_player])] @@ <<>>
MinimaxTab == [ai_player \in Markers |-> MinimaxLevel(0, ai_player, MinimaxTab1[ai_player])] @@ <<>>

\* self.minimax(board, 0, True, ai, human), as
\* [score, move, list] with list the contents of the argument on return.
minimax(brd, ai_player) ==
    LET r == MinimaxTab[ai_player][Encode(brd)]
    IN [score |-> r[1], move |-> r[2], list |-> BoardTab[r[3]]]

\* -------------------------------------------------------------------- state
VARIABLES
    board,            \* self.board
    current_player,   \* self.current_player
    mode_var,         \* self.mode_var
    marker_var,       \* self.marker_var
    difficulty_var,   \* self.difficulty_var
    buttons_state,    \* the state option of the nine cell buttons
    pending,          \* computer_move callbacks queued by master.after
    dialogs,          \* messages of the open 'Game Over' boxes, innermost last
    ret,              \* result of the last direct call of a pure function
    stack             \* frames of a minimax call that is run step by step

vars == <<board, current_player, mode_var, marker_var, difficulty_var,
          buttons_state, pending, dialogs, ret, stack>>

NoCall == [fn |-> "none", score |-> 0, move |-> None, list |-> EmptyBoard, moves |-> <<>>]

human_marker == marker_var

ai_marker == IF human_marker = "X" THEN "O" ELSE "X"

\* The state __init__ leaves: the defaults of the three option variables
\* followed by its closing reset_board(), which schedules nothing because
\* the human marker is X.
Init ==
    /\ board = EmptyBoard
    /\ current_player = "X"
    /\ mode_var = "HvC"
    /\ marker_var = "X"
    /\ difficulty_var = "hard"
    /\ buttons_state = "normal"
    /\ pending = 0
    /\ dialogs = <<>>
    /\ ret = NoCall
    /\ stack = <<>>

\* ----------------------------------------------------------------- handlers
make_move(b, index, player) == [b EXCEPT ![index] = player]

toggle_player(player) == IF player = "X" THEN "O" ELSE "X"

\* The text end_game shows for a winner (None: no winner).
end_game_msg(winner) ==
    IF winner # NoWinner THEN "Player " \o winner \o " wins!" ELSE "Its a tie!"

\* end_game(winner): every cell button is disabled and the modal box opens;
\* the handler that called it returns when the box is closed.
end_game(winner) ==
    /\ buttons_state' = "disabled"
    /\ dialogs' = Append(dialogs, end_game_msg(winner))

\* master.after(ms, self.computer_move)
ScheduleComputerMove ==
    /\ pending < MaxPending
    /\ pending' = pending + 1

\* reset_board(), run with the option variables already holding mode and marker.
reset_board(mode, marker) ==
    /\ board' = EmptyBoard
    /\ buttons_state' = "normal"
    /\ current_player' = "X"
    /\ IF mode = "HvC" /\ marker # "X"
       THEN ScheduleComputerMove
       ELSE UNCHANGED pending
    /\ UNCHANGED <<dialogs, ret, stack>>

\* While a 'Game Over' box is open it holds the grab: no widget of the main
\* window receives clicks, but timers still run.
InputEnabled == dialogs = <<>>

Restart ==
    /\ InputEnabled
    /\ UNCHANGED <<mode_var, marker_var, difficulty_var>>
    /\ reset_board(mode_var, marker_var)

SelectMode(m) ==
    /\ InputEnabled
    /\ mode_var' = m
    /\ UNCHANGED <<marker_var, difficulty_var>>
    /\ reset_board(m, marker_var)

SelectMarker(m) ==
    /\ InputEnabled
    /\ marker_var' = m
    /\ UNCHANGED <<mode_var, difficulty_var>>
    /\ reset_board(mode_var, m)

SelectDifficulty(d) ==
    /\ InputEnabled
    /\ difficulty_var' = d
    /\ UNCHANGED <<mode_var, marker_var>>
    /\ reset_board(mode_var, marker_var)

\* Variant of GameOverAfter that tests only is_full().
GameOverAfterFullOnly(b) == is_full(b)

\* The tail shared by on_click and computer_move once the marker is on
\* board b: end the game, or pass the turn.
GameOverAfter(b) == check_winner(b) # NoWinner \/ is_full(b)

\* Variant of on_click without the early return of lines 98-99.
on_click_any_turn(index) ==
    /\ InputEnabled
    /\ buttons_state = "normal"
    /\ UNCHANGED <<mode_var, marker_var, difficulty_var, ret, stack>>
    /\ IF board[index] # EMPTY
       THEN UNCHANGED <<board, current_player, buttons_state, pending, dialogs>>
       ELSE LET b == make_move(board, index, current_player)
            IN /\ board' = b
               /\ IF GameOverAfter(b)
                  THEN /\ end_game(check_winner(b))
                       /\ UNCHANGED <<current_player, pending>>
                  ELSE /\ current_player' = toggle_player(current_player)
                       /\ UNCHANGED <<buttons_state, dialogs>>
                       /\ IF mode_var = "HvC" /\ current_player' # human_marker
                          THEN ScheduleComputerMove
                          ELSE UNCHANGED pending

\* A click on cell button index (a disabled button runs no command).
on_click(index) ==
    /\ InputEnabled
    /\ buttons_state = "normal"
    /\ UNCHANGED <<mode_var, marker_var, difficulty_var, ret, stack>>
    /\ IF board[index] # EMPTY
       THEN UNCHANGED <<board, current_player, buttons_state, pending, dialogs>>
       ELSE IF mode_var = "HvC" /\ current_player # human_marker
       THEN UNCHANGED <<board, current_player, buttons_state, pending, dialogs>>
       ELSE LET b == make_move(board, index, current_player)
            IN /\ board' = b
               /\ IF GameOverAfter(b)
                  THEN /\ end_game(check_winner(b))
                       /\ UNCHANGED <<current_player, pending>>
                  ELSE /\ current_player' = toggle_player(current_player)
                       /\ UNCHANGED <<buttons_state, dialogs>>
                       /\ IF mode_var = "HvC" /\ current_player' # human_marker
                          THEN ScheduleComputerMove
                          ELSE UNCHANGED pending

\* Variant of RandomChoice that draws from all nine indices.
RandomChoiceAnyCell(moves) == Cells

\* The indices computer_move can pass to make_move.  random.choice(moves)
\* yields any element of moves; the empty set stands for random.choice
\* raising IndexError on an empty list.
RandomChoice(moves) == Range(moves)

\* Variant of SearchChoice that never consults the search.
SearchChoiceRandom(b, ai, moves) == RandomChoice(moves)

SearchChoice(b, ai, moves) ==
    LET move == minimax(b, ai).move
    IN IF move = None THEN RandomChoice(moves) ELSE {move}

MoveChoices(difficulty, b, ai) ==
    LET moves == available_moves(b)
    IN IF difficulty = "easy" THEN RandomChoice(moves)
       ELSE IF difficulty = "medium"
       THEN SearchChoice(b, ai, moves) \cup RandomChoice(moves)
       ELSE SearchChoice(b, ai, moves)

\* A queued computer_move callback runs.  When random.choice raises, Tk
\* reports the exception and the handler ends with nothing written.
computer_move ==
    /\ pending > 0
    /\ pending' = pending - 1
    /\ UNCHANGED <<mode_var, marker_var, difficulty_var, ret, stack>>
    /\ LET choices == MoveChoices(difficulty_var, board, ai_marker)
       IN IF choices = {}
          THEN UNCHANGED <<board, current_player, buttons_state, dialogs>>
          ELSE \E move \in choices :
                 LET b == make_move(board, move, ai_marker)
                 IN /\ board' = b
                    /\ IF GameOverAfter(b)
                       THEN /\ end_game(check_winner(b))
                            /\ UNCHANGED current_player
                       ELSE /\ current_player' = toggle_player(current_player)
                            /\ UNCHANGED <<buttons_state, dialogs>>

\* The user dismisses the innermost 'Game Over' box.
CloseDialog ==
    /\ dialogs # <<>>
    /\ dialogs' = SubSeq(dialogs, 1, Len(dialogs) - 1)
    /\ UNCHANGED <<board, current_player, mode_var, marker_var, difficulty_var,
                   buttons_state, pending, ret, stack>>

Next ==
    \/ \E index \in Cells : on_click(index)
    \/ Restart
    \/ \E m \in Modes : SelectMode(m)
    \/ \E m \in Markers : SelectMarker(m)
    \/ \E d \in Difficulties : SelectDifficulty(d)
    \/ computer_move
    \/ CloseDialog

Spec == Init /\ [][Next]_vars

\* ------------------------------------------- the pure functions on any board
\* A second specification applies minimax (as computer_move calls it, on a
\* copy of the board at depth 0, maximizing) and available_moves to every
\* nine-cell board and both marker assignments, and records the result.
InitSearch ==
    /\ board \in AllBoards
    /\ marker_var \in Markers
    /\ current_player = "X"
    /\ mode_var = "HvC"
    /\ difficulty_var = "hard"
    /\ buttons_state = "normal"
    /\ pending = 0
    /\ dialogs = <<>>
    /\ ret = NoCall
    /\ stack = <<>>

\* _, move = self.minimax(self.board[:], 0, True, ai, human)
CallMinimax ==
    /\ ret.fn = "none"
    /\ LET r == minimax(board, ai_marker)
       IN ret' = [fn |-> "minimax", score |-> r.score, move |-> r.move,
                  list |-> r.list, moves |-> <<>>]
    /\ UNCHANGED <<board, current_player, mode_var, marker_var, difficulty_var,
                   buttons_state, pending, dialogs, stack>>

\* moves = self.available_moves()
CallAvailableMoves ==
    /\ ret.fn = "none"
    /\ ret' = [fn |-> "available_moves", score |-> 0, move |-> None,
               list |-> board, moves |-> available_moves(board)]
    /\ UNCHANGED <<board, current_player, mode_var, marker_var, difficulty_var,
                   buttons_state, pending, dialogs, stack>>

NextSearch ==
    \/ CallMinimax
    \/ CallAvailableMoves

SpecSearch == InitSearch /\ [][NextSearch]_vars

\* ----------------------------------------------------- the search, stepwise
\* self.minimax(self.board[:], 0, True, ai, human) run one call and one
\* loop iteration at a time.  ret.list is the list the search writes to,
\* stack holds one frame per call that has not returned (the innermost
\* last): a frame is at "call" when the call has just been entered and at
\* "loop" when it is about to try candidate k of its moves.

\* Empty cells of the boards a stepwise search is started on.
MaxSearchCells == 3

Frame(depth, maximizing) ==
    [at |-> "call", depth |-> depth, maximizing |-> maximizing, moves |-> <<>>,
     k |-> 0, best_score |-> 0, best_move |-> None]

InitRun ==
    /\ board \in {b \in AllBoards : Len(available_moves(b)) <= MaxSearchCells}
    /\ marker_var \in Markers
    /\ current_player = "X"
    /\ mode_var = "HvC"
    /\ difficulty_var = "hard"
    /\ buttons_state = "normal"
    /\ pending = 0
    /\ dialogs = <<>>
    /\ ret = [fn |-> "running", score |-> 0, move |-> None, list |-> board, moves |-> <<>>]
    /\ stack = <<Frame(0, TRUE)>>

\* Variant of ReturnValue that resumes the caller at the same candidate.
ReturnValueSameCandidate(score, move) ==
    LET rest == SubSeq(stack, 1, Len(stack) - 1)
    IN IF rest = <<>>
       THEN /\ stack' = <<>>
            /\ ret' = [fn |-> "minimax", score |-> score, move |-> move,
                       list |-> ret.list, moves |-> <<>>]
       ELSE LET caller == rest[Len(rest)]
                tried == caller.moves[caller.k]
                better == IF caller.maximizing THEN score > caller.best_score
                                               ELSE score < caller.best_score
            IN /\ ret' = [ret EXCEPT !.list = [@ EXCEPT ![tried] = EMPTY]]
               /\ stack' = [rest EXCEPT ![Len(rest)] =
                                [caller EXCEPT !.best_score = IF better THEN score ELSE @,
                                               !.best_move = IF better THEN tried ELSE @]]

\* return score, move: the innermost call ends.  The top-level call hands
\* the pair to computer_move; any other resumes its caller after the
\* recursive call: board[move] = ' ', the comparison with best_score, and
\* on to the next candidate.
ReturnValue(score, move) ==
    LET rest == SubSeq(stack, 1, Len(stack) - 1)
    IN IF rest = <<>>
       THEN /\ stack' = <<>>
            /\ ret' = [fn |-> "minimax", score |-> score, move |-> move,
                       list |-> ret.list, moves |-> <<>>]
       ELSE LET caller == rest[Len(rest)]
                tried == caller.moves[caller.k]
                better == IF caller.maximizing THEN score > caller.best_score
                                               ELSE score < caller.best_score
            IN /\ ret' = [ret EXCEPT !.list = [@ EXCEPT ![tried] = EMPTY]]
               /\ stack' = [rest EXCEPT ![Len(rest)] =
                                [caller EXCEPT !.k = @ + 1,
                                               !.best_score = IF better THEN score ELSE @,
                                               !.best_move = IF better THEN tried ELSE @]]

\* The head of minimax: the three terminal tests, else the loop is set up.
EnterMinimax ==
    /\ stack # <<>>
    /\ stack[Len(stack)].at = "call"
    /\ LET frame == stack[Len(stack)]
           winner == evaluate_board(ret.list)
       IN IF winner = ai_marker THEN ReturnValue(10 - frame.depth, None)
          ELSE IF winner = human_marker THEN ReturnValue(frame.depth - 10, None)
          ELSE IF \A i \in Cells : ret.list[i] # EMPTY THEN ReturnValue(0, None)
          ELSE /\ stack' = [stack EXCEPT ![Len(stack)] =
                               [frame EXCEPT !.at = "loop",
                                             !.moves = EmptyFrom(ret.list, 0),
                                             !.k = 1,
                                             !.best_score = IF frame.maximizing THEN -999 ELSE 999]]
               /\ UNCHANGED ret
    /\ UNCHANGED <<board, current_player, mode_var, marker_var, difficulty_var,
                   buttons_state, pending, dialogs>>

\* One pass of the for loop up to the recursive call, or the return after
\* the last candidate.
LoopStep ==
    /\ stack # <<>>
    /\ stack[Len(stack)].at = "loop"
    /\ LET frame == stack[Len(stack)]
       IN IF frame.k > Len(frame.moves)
          THEN ReturnValue(frame.best_score, frame.best_move)
          ELSE /\ ret' = [ret EXCEPT !.list =
                             [@ EXCEPT ![frame.moves[frame.k]] =
                                 IF frame.maximizing THEN ai_marker ELSE human_marker]]
               /\ stack' = Append(stack, Frame(frame.depth + 1, ~frame.maximizing))
    /\ UNCHANGED <<board, current_player, mode_var, marker_var, difficulty_var,
                   buttons_state, pending, dialogs>>

NextRun ==
    \/ EnterMinimax
    \/ LoopStep

\* The interpreter runs the call to its end: no step of it waits on anything.
SpecRun == InitRun /\ [][NextRun]_vars /\ WF_vars(NextRun)

\* =================================================================== claims
Count(b, m) == Cardinality({i \in Cells : b[i] = m})

\* Marker m occupies a whole line of WIN_COMBINATIONS on b.
HasLine(b, m) ==
    \E k \in 1..Len(WIN_COMBINATIONS) :
        LineComplete(b, k) /\ b[WIN_COMBINATIONS[k][1]] = m

InProgress(b) == ~HasLine(b, "X") /\ ~HasLine(b, "O") /\ \E i \in Cells : b[i] = EMPTY

\* A step of the GUI that runs a queued computer_move callback.
ComputerMoveStep == pending' < pending

\* A step that runs reset_board.
ResetStep ==
    \/ Restart
    \/ \E m \in Modes : SelectMode(m)
    \/ \E m \in Markers : SelectMarker(m)
    \/ \E d \in Difficulties : SelectDifficulty(d)

\* A step that writes a marker into the board.
PlacementStep == \E i \in Cells : board[i] = EMPTY /\ board'[i] # EMPTY

\* C1: in every reachable state of the GUI the number of X cells minus the
\* number of O cells is 0 or 1 (X first after a reset, strict alternation).
C1_Alternation == Count(board, "X") - Count(board, "O") \in {0, 1}

\* C2: every time computer_move executes, the board is in progress (no
\* completed line and at least one empty cell), so random.choice never gets
\* an empty list and the search never returns None at the top level.
C2_ComputerMoveInProgress ==
    [][ComputerMoveStep => InProgress(board)]_vars

\* C3: every placement writes to a cell that was empty: a non-empty cell
\* keeps its value in every step other than reset_board, and the cell
\* computer_move writes (at any difficulty) is an element of
\* available_moves() at call time and receives the computer's marker.
C3_PlacementOnEmptyCell ==
    [][ /\ ResetStep \/ \A i \in Cells : board[i] # EMPTY => board'[i] = board[i]
        /\ ComputerMoveStep =>
              \A i \in Cells : board'[i] # board[i] =>
                  /\ i \in Range(available_moves(board))
                  /\ board'[i] = ai_marker
                  /\ \A j \in Cells \ {i} : board'[j] = board[j] ]_vars

\* The computer has placed a marker on easy, on a board the human moved on.
C3_Witness ==
    /\ mode_var = "HvC" /\ marker_var = "X" /\ difficulty_var = "easy"
    /\ Count(board, "O") >= 2 /\ Count(board, "X") >= 2

\* C4: for every board and both marker assignments, when minimax returns,
\* the list it was given is cell-for-cell what it was before the call; the
\* board of the game (of which the search gets a copy) is unchanged too.
C4_SearchLeavesListUnchanged ==
    ret.fn = "minimax" => ret.list = board

\* A search that tried and undid at least three placements.
C4_Witness ==
    /\ ret.fn = "minimax" /\ ret.move # None
    /\ Count(board, EMPTY) >= 3 /\ ret.list = board

\* C5: no reachable board of the game has a completed line of X and a
\* completed line of O at once.
C5_AtMostOneWinner == ~(HasLine(board, "X") /\ HasLine(board, "O"))

\* The empty cells of b that complete a line of marker m.
WinningCells(b, m) ==
    {i \in Cells : b[i] = EMPTY /\ HasLine([b EXCEPT ![i] = m], m)}

Scenario2Board == [i \in Cells |-> IF i \in {0, 1} THEN "X" ELSE IF i \in {3, 4} THEN "O" ELSE EMPTY]
Scenario3Board == [i \in Cells |-> IF i \in {0, 1} THEN "O" ELSE IF i \in {3, 4} THEN "X" ELSE EMPTY]

\* C6: on Hard, on every board with no completed line where some empty cell
\* completes a line of the computer's marker, the move of minimax (depth 0,
\* maximizing) is such a cell; it is index 2 on [X,X,_,O,O,_,_,_,_] with
\* computer X and on [O,O,_,X,X,_,_,_,_] with computer O.
C6_TakesImmediateWin ==
    ret.fn = "minimax" =>
        /\ (evaluate_board(board) = NoWinner /\ WinningCells(board, ai_marker) # {}
               => ret.move \in WinningCells(board, ai_marker))
        /\ (board = Scenario2Board /\ ai_marker = "X" => ret.move = 2)
        /\ (board = Scenario3Board /\ ai_marker = "O" => ret.move = 2)

\* The search has answered scenario 2.
C6_Witness ==
    ret.fn = "minimax" /\ board = Scenario2Board /\ ai_marker = "X" /\ ret.move = 2

CenterXBoard == [i \in Cells |-> IF i = 4 THEN "X" ELSE EMPTY]

\* C7: on Hard with computer O and human X, on the board whose only marker
\* is X at the center, the chosen move is a corner, never an edge.
C7_CornerAfterCenter ==
    ret.fn = "minimax" /\ board = CenterXBoard /\ ai_marker = "O"
        => ret.move \in {0, 2, 6, 8}

C7_Witness ==
    ret.fn = "minimax" /\ board = CenterXBoard /\ ai_marker = "O" /\ ret.move # None

\* C8 as stated: minimax at depth 0 returns an index of an empty cell on
\* every board that has an empty cell (None only on a board without one).
C8_NoneOnlyWhenNoEmptyCell ==
    ret.fn = "minimax" /\ ~is_full(board)
        => ret.move \in Range(available_moves(board))

\* C8 as amended: minimax at depth 0 returns None only on a board that has
\* no empty cell or already has a completed line; on every board with no
\* completed line and an empty cell it returns an index of an empty cell.
C8_NoneOnlyWhenTerminal ==
    ret.fn = "minimax" =>
        /\ (ret.move = None => is_full(board) \/ evaluate_board(board) # NoWinner)
        /\ (InProgress(board) => ret.move \in Range(available_moves(board)))

\* The search has returned a move on a board it can only lose or draw.
C8_Witness ==
    /\ ret.fn = "minimax" /\ InProgress(board)
    /\ ret.score <= 0 /\ ret.move \in Range(available_moves(board))

C10_LegalMoves ==
    ret.fn = "available_moves" =>
        /\ \A k \in 1..(Len(ret.moves) - 1) : ret.moves[k] < ret.moves[k + 1]
        /\ Range(ret.moves) = {i \in Cells : board[i] = EMPTY}
        /\ Len(ret.moves) + Cardinality({i \in Cells : board[i] # EMPTY}) = 9
        /\ MovesTab[Encode(board)] = ret.moves

C10_Witness ==
    /\ ret.fn = "available_moves" /\ Len(ret.moves) = 4
    /\ board[0] # EMPTY /\ board[8] = EMPTY

\* The click on cell index is one on_click returns from before make_move:
\* the cell is taken, or it is the computer's turn in human-vs-computer.
InvalidClick(index) ==
    \/ board[index] # EMPTY
    \/ mode_var = "HvC" /\ current_player # human_marker

\* C11: an invalid click has no effect: a run of on_click on a non-empty
\* cell, or in human-vs-computer mode while current_player is not the
\* human's marker, leaves the board, current_player and the number of
\* queued computer_move callbacks as they were, and opens no dialog.
C11_InvalidClickIgnored ==
    [][\A index \in Cells :
          on_click(index) /\ InvalidClick(index) =>
              UNCHANGED <<board, current_player, pending, dialogs, buttons_state>>]_vars

\* The cell buttons take clicks, it is the computer's turn with its callback
\* still queued, and the board has both a taken and an empty cell.
C11_Witness ==
    /\ InputEnabled /\ buttons_state = "normal"
    /\ mode_var = "HvC" /\ current_player # human_marker /\ pending > 0
    /\ InProgress(board)
    /\ \E i \in Cells : board[i] # EMPTY

\* C12: only the turn owner writes the board: the marker a step writes is
\* current_player at the time of the write, computer_move runs only when
\* current_player is ai_marker(), and in human-vs-computer mode a click
\* places only when current_player is human_marker().
C12_TurnOwnerWrites ==
    [][ /\ \A i \in Cells :
              board[i] = EMPTY /\ board'[i] # EMPTY => board'[i] = current_player
        /\ ComputerMoveStep => current_player = ai_marker
        /\ PlacementStep /\ ~ComputerMoveStep /\ mode_var = "HvC" =>
              current_player = human_marker ]_vars

\* C13: in human-vs-computer mode, whenever the game is in progress and it
\* is the computer's turn, a computer_move callback is queued (so the turn
\* comes back to the human or the game ends once the callback fires).
C13_ComputerTurnHasCallback ==
    mode_var = "HvC" /\ InProgress(board) /\ current_player = ai_marker
        => pending > 0

\* The score minimax returns for the list b with marker m written to cell
\* i, called at depth d (1 or 2) for the computer playing ai.
ChildScore(b, i, m, d, ai) ==
    LET c == Encode([b EXCEPT ![i] = m])
    IN IF d = 1 THEN MinimaxTab1[ai][c][1] ELSE MinimaxTab2[ai][c][1]

\* move is the lowest-indexed empty cell of b among those whose child
\* score is the greatest (maximizing) or the least (minimizing), and score
\* is that child score.
LowestIndexedBest(b, m, d, ai, maximizing, score, move) ==
    LET empties == {i \in Cells : b[i] = EMPTY}
        best == {i \in empties :
                    \A j \in empties :
                        IF maximizing
                        THEN ChildScore(b, j, m, d, ai) <= ChildScore(b, i, m, d, ai)
                        ELSE ChildScore(b, j, m, d, ai) >= ChildScore(b, i, m, d, ai)}
    IN /\ move \in best
       /\ \A j \in best : move <= j
       /\ score = ChildScore(b, move, m, d, ai)

\* C14: for every board with no completed line and an empty cell, the move
\* minimax returns at depth 0 is the lowest-indexed empty cell among those
\* whose resulting position has the maximum score, and the reply the search
\* assumes at depth 1 is the lowest-indexed cell of minimum score; the
\* returned pair is the value of a function of the board and the markers.
C14_LowestIndexedBest ==
    ret.fn = "minimax" /\ InProgress(board) =>
        /\ LowestIndexedBest(board, ai_marker, 1, ai_marker, TRUE, ret.score, ret.move)
        /\ LET after == [board EXCEPT ![ret.move] = ai_marker]
               reply == MinimaxTab1[ai_marker][Encode(after)]
           IN InProgress(after) =>
                 LowestIndexedBest(after, human_marker, 2, ai_marker, FALSE,
                                   reply[1], reply[2])
        /\ ret.score = minimax(board, ai_marker).score
        /\ ret.move = minimax(board, ai_marker).move

\* A search in which several cells share the best score and the lowest of
\* them is not the first empty cell.
C14_Witness ==
    /\ ret.fn = "minimax" /\ InProgress(board)
    /\ \E i \in Cells : board[i] = EMPTY /\ i < ret.move
    /\ \E j \in Cells :
           /\ board[j] = EMPTY /\ j > ret.move
           /\ ChildScore(board, j, ai_marker, 1, ai_marker) = ret.score

\* C15: the search terminates: each recursive call is made on a list with
\* exactly one fewer empty cell, the depth of a call never exceeds the
\* number of empty cells of the board the search was started on (at most
\* 9), and the top-level call returns (with the pair of minimax).
C15_SearchTerminates ==
    /\ [][Len(stack') > Len(stack) =>
              /\ Len(stack') = Len(stack) + 1
              /\ Count(ret'.list, EMPTY) = Count(ret.list, EMPTY) - 1]_vars
    /\ [](\A n \in 1..Len(stack) :
              /\ stack[n].depth = n - 1
              /\ stack[n].depth <= Count(board, EMPTY)
              /\ stack[n].depth <= 9)
    /\ [](ret.fn = "minimax" =>
              /\ ret.score = minimax(board, ai_marker).score
              /\ ret.move = minimax(board, ai_marker).move
              /\ ret.list = board)
    /\ <>(ret.fn = "minimax" /\ stack = <<>>)

\* The deepest call there can be: at depth MaxSearchCells, on a full list.
C15_Witness ==
    /\ Len(stack) = MaxSearchCells + 1
    /\ stack[Len(stack)].depth = Count(board, EMPTY)
    /\ Count(ret.list, EMPTY) = 0
    /\ evaluate_board(ret.list) = NoWinner

\* C16: in human-vs-computer mode at Hard the human never wins: no
\* reachable state, for either marker assignment and any order of clicks,
\* restarts and computer_move firings, has a completed line of the human's
\* marker.
C16_HumanNeverWinsOnHard ==
    mode_var = "HvC" /\ difficulty_var = "hard" => ~HasLine(board, human_marker)

\* A game on Hard played to the end: the human placed four markers and the
\* last computer_move completed a line or filled the board.
C16_Witness ==
    /\ mode_var = "HvC" /\ difficulty_var = "hard"
    /\ Count(board, human_marker) >= 4 /\ Count(board, ai_marker) >= 4
    /\ buttons_state = "disabled" /\ dialogs # <<>>

\* C17: while the mode is human-vs-human the computer places no marker: no
\* computer_move callback is queued (so none can run), also right after
\* the mode was switched from human-vs-computer.
C17_NoCallbackInHvH ==
    mode_var = "HvH" => pending = 0

\* C18: on Hard, on a board with no completed line where the computer has no
\* immediately winning cell and exactly one empty cell would complete a
\* line of the human's marker, the move minimax returns at depth 0 is that
\* cell.
C18_BlocksSingleThreat ==
    /\ ret.fn = "minimax" /\ InProgress(board)
    /\ WinningCells(board, ai_marker) = {}
    /\ Cardinality(WinningCells(board, human_marker)) = 1
    => ret.move \in WinningCells(board, human_marker)

\* The search blocked the one threat on a board both sides have moved on,
\* and the blocking cell is not the first empty one.
C18_Witness ==
    /\ ret.fn = "minimax" /\ InProgress(board)
    /\ WinningCells(board, ai_marker) = {}
    /\ Cardinality(WinningCells(board, human_marker)) = 1
    /\ ret.move \in WinningCells(board, human_marker)
    /\ \E i \in Cells : board[i] = EMPTY /\ i < ret.move
    /\ Count(board, human_marker) = 2 /\ Count(board, ai_marker) = 1

====
